---- MODULE Spec2Model ----
(***************************************************************************)
(* Interval timer: the workout model (flattenWorkout, calculateTotalTime,  *)
(* countIntervals), the timeline of TimerPage and the playback state       *)
(* machine of TimerPage (startCountdown, the playback tick effect, the     *)
(* index-change effect, handleStart / handlePause / handleSkip /           *)
(* handleStop / confirmStop).                                              *)
(*                                                                         *)
(* Time is wall-clock milliseconds.  The code reads Date.now() only in     *)
(* differences with the instants it stored, so the model keeps, for each   *)
(* stored instant, the milliseconds elapsed since it, and for each         *)
(* repeating timer the milliseconds until its next firing (NoTimer when    *)
(* cleared).  Every handler is one action that includes the render and     *)
(* the effects React runs after it.  A callback created in one render      *)
(* keeps the values of that render: what a callback captured is state.     *)
(*                                                                         *)
(* Spec is the playback machine of TimerPage on small plans.  PureSpec     *)
(* applies the functions of the workout model (flattenWorkout,             *)
(* calculateTotalTime, countIntervals, the timeline) to item trees with    *)
(* nested Sets.  IntensitySpec calls calculateFinalIntensity on every type *)
(* and level.  EditorSpec is the item-tree editor of CreateTimerPage and    *)
(* EditTimerPage with its save validation; LiveSpec is the playback machine *)
(* with timers that keep firing.                                            *)
(***************************************************************************)
EXTENDS Integers, Sequences, FiniteSets, TLC

\* ---------------------------------------------------------------- bounds
MaxDur == 2          \* longest step duration (seconds) of the plans
MaxSteps == 3        \* longest timeline of the plans
MaxIdleMs == 3000    \* Wait is modelled while the stored instants are at most this old
BeepCap == 2         \* the warning-cue counters saturate here
MaxReps == 2         \* largest repetitions of a Set of the item trees
MaxLeaves == 2       \* longest list of leaf items inside a Set of the item trees

\* ------------------------------------------------------ program constants
TickMs == 100              \* setInterval(..., 100)
CountdownMs == 1000        \* setInterval(..., 1000)
MsPerSec == 1000           \* Math.floor((now - ref) / 1000)
StartCountdown == 5
TransitionCountdown == 3
NoTimer == -1              \* a cleared (or never set) interval handle

\* ------------------------------------------------------------ the plans
Exercise(t, d) == [type |-> t, duration |-> d]
Rest(d) == [type |-> "rest", duration |-> d]
WorkoutSet(r, its) == [type |-> "set", repetitions |-> r, items |-> its]

ItemLists ==
    {<<>>}
    \cup {<<Exercise("running", d)>> : d \in 1..MaxDur}
    \cup {<<WorkoutSet(r, <<Rest(1)>>)>> : r \in 2..MaxSteps}

PlanShapes ==
    [warmupTime : 0..1, cooldownTime : 0..1, items : ItemLists]

\* ------------------------------------------------------- workout model
RECURSIVE flattenWorkout(_, _)
RECURSIVE flattenPass(_)
\* a pass that puts each item in front of what it has collected
flattenPassReversed(items) ==
    IF items = <<>> THEN <<>>
    ELSE LET item == Head(items) IN
         flattenPass(Tail(items)) \o
         (IF item.type = "set"
          THEN flattenWorkout(item.items, item.repetitions)
          ELSE <<item>>)

\* one pass of the inner loop: for (const item of items)
flattenPass(items) ==
    IF items = <<>> THEN <<>>
    ELSE LET item == Head(items) IN
         (IF item.type = "set"
          THEN flattenWorkout(item.items, item.repetitions)
          ELSE <<item>>) \o flattenPass(Tail(items))

\* a loop that makes one pass too many: rep <= repetitions
flattenWorkoutExtraPass(items, repetitions) ==
    IF repetitions < 0 THEN <<>>
    ELSE flattenPass(items) \o flattenWorkout(items, repetitions - 1)
\* for (let rep = 0; rep < repetitions; rep++) { one pass }
flattenWorkout(items, repetitions) ==
    IF repetitions <= 0 THEN <<>>
    ELSE flattenPass(items) \o flattenWorkout(items, repetitions - 1)

RECURSIVE SumDurations(_)
SumDurations(s) ==
    IF s = <<>> THEN 0 ELSE Head(s).duration + SumDurations(Tail(s))

\* a total that forgets warmup and cooldown
calculateTotalTimeMainOnly(w) == SumDurations(flattenWorkout(w.items, 1))
calculateTotalTime(w) ==
    w.warmupTime + SumDurations(flattenWorkout(w.items, 1)) + w.cooldownTime

\* a count that forgets warmup and cooldown
countIntervalsMainOnly(w) == Len(flattenWorkout(w.items, 1))
countIntervals(w) ==
    Len(flattenWorkout(w.items, 1))
    + (IF w.warmupTime > 0 THEN 1 ELSE 0)
    + (IF w.cooldownTime > 0 THEN 1 ELSE 0)

\* the plans of the model: those whose timeline has at most MaxSteps steps
Plans == {w \in PlanShapes : countIntervals(w) <= MaxSteps}

\* the item trees of PureSpec: leaf items, a Set of leaf items, a Set whose only
\* child is a Set of leaf items
Leaves == {Exercise("running", d) : d \in 1..MaxDur} \cup {Rest(1)}
LeafLists == UNION {[1..n -> Leaves] : n \in 0..MaxLeaves}
NestedSet(r1, r2, L) == WorkoutSet(r1, <<WorkoutSet(r2, L)>>)
NestedItemLists ==
    {<<NestedSet(r1, r2, L)>> : r1 \in 1..MaxReps, r2 \in 1..MaxReps, L \in LeafLists}
\* a leaf item before or after a Set of leaf items
MixedItemLists ==
    {<<Exercise("walking", 1), WorkoutSet(r, L)>> : r \in 1..MaxReps, L \in LeafLists}
    \cup {<<WorkoutSet(r, L), Exercise("walking", 1)>> : r \in 1..MaxReps, L \in LeafLists}
\* one exercise that carries an intensity level
LevelItemLists ==
    {<<[type |-> t, duration |-> 1, intensity |-> l]>> :
        t \in {"walking", "running"}, l \in {"low", "medium", "high"}}
RichItemLists ==
    LeafLists
    \cup {<<WorkoutSet(r, L)>> : r \in 1..MaxReps, L \in LeafLists}
    \cup NestedItemLists
    \cup MixedItemLists
    \cup LevelItemLists
RichPlans == [warmupTime : 0..1, cooldownTime : 0..1, items : RichItemLists]

\* ------------------------------------------------------------ timeline
RECURSIVE pushMain(_, _)
\* flattenedWorkout.forEach: each item with startTime / endTime
pushMain(flat, t) ==
    IF flat = <<>> THEN <<>>
    ELSE <<[type |-> Head(flat).type, duration |-> Head(flat).duration,
            startTime |-> t, endTime |-> t + Head(flat).duration]>>
         \o pushMain(Tail(flat), t + Head(flat).duration)

\* a builder that always pushes the warmup step
completeTimelineAlwaysWarm(w) ==
    LET flat == flattenWorkout(w.items, 1)
        warm == <<[id |-> "warmup", type |-> "walking", duration |-> w.warmupTime,
                   startTime |-> 0, endTime |-> w.warmupTime]>>
        t1   == w.warmupTime
        main == pushMain(flat, t1)
        t2   == t1 + SumDurations(flat)
        cool == IF w.cooldownTime > 0
                THEN <<[id |-> "cooldown", type |-> "walking", duration |-> w.cooldownTime,
                        startTime |-> t2, endTime |-> t2 + w.cooldownTime]>>
                ELSE <<>>
    IN warm \o main \o cool

completeTimelineOf(w) ==
    LET flat == flattenWorkout(w.items, 1)
        warm == IF w.warmupTime > 0
                THEN <<[id |-> "warmup", type |-> "walking", duration |-> w.warmupTime,
                        startTime |-> 0, endTime |-> w.warmupTime]>>
                ELSE <<>>
        t1   == IF w.warmupTime > 0 THEN w.warmupTime ELSE 0
        main == pushMain(flat, t1)
        t2   == t1 + SumDurations(flat)
        cool == IF w.cooldownTime > 0
                THEN <<[id |-> "cooldown", type |-> "walking", duration |-> w.cooldownTime,
                        startTime |-> t2, endTime |-> t2 + w.cooldownTime]>>
                ELSE <<>>
    IN warm \o main \o cool

\* ------------------------------------------------------------ intensity
\* the default parameter: intensity: IntensityLevel = "medium"
DefaultIntensity(intensity) == IF intensity = "undefined" THEN "medium" ELSE intensity

\* a score that ignores the level
calculateFinalIntensityNoLevel(type, intensity) ==
    CASE type = "walking" -> 2
      [] type = "running" -> 4
      [] OTHER -> 1

calculateFinalIntensity(type, intensity) ==
    LET level == DefaultIntensity(intensity) IN
    CASE type = "walking" ->
            (CASE level = "low" -> 1
               [] level = "medium" -> 2
               [] level = "high" -> 3
               [] OTHER -> 2)
      [] type = "running" ->
            (CASE level = "low" -> 3
               [] level = "medium" -> 4
               [] level = "high" -> 5
               [] OTHER -> 4)
      [] OTHER -> 1

getWarmupCooldownIntensity == 2

\* item.intensity, "undefined" when the item has no such field
ItemIntensity(item) == IF "intensity" \in DOMAIN item THEN item.intensity ELSE "undefined"
\* item.intensity || "medium"
OrMedium(intensity) == IF intensity = "undefined" THEN "medium" ELSE intensity

\* ------------------------------------------- timelineData of ViewTimerPage
RECURSIVE pushMainData(_, _)
\* flattenedWorkout.forEach: each item with startTime / endTime / finalIntensity
pushMainData(flat, t) ==
    IF flat = <<>> THEN <<>>
    ELSE LET item == Head(flat) IN
         <<[type |-> item.type, duration |-> item.duration,
            intensity |-> ItemIntensity(item),
            startTime |-> t, endTime |-> t + item.duration,
            isWarmupCooldown |-> FALSE,
            finalIntensity |->
                calculateFinalIntensity(item.type, OrMedium(ItemIntensity(item)))]>>
         \o pushMainData(Tail(flat), t + item.duration)

timelineDataOf(w) ==
    LET flat == flattenWorkout(w.items, 1)
        warm == IF w.warmupTime > 0
                THEN <<[id |-> "warmup", type |-> "walking", duration |-> w.warmupTime,
                        intensity |-> "low",
                        startTime |-> 0, endTime |-> 0 + w.warmupTime,
                        isWarmupCooldown |-> TRUE,
                        finalIntensity |-> getWarmupCooldownIntensity]>>
                ELSE <<>>
        t1   == IF w.warmupTime > 0 THEN 0 + w.warmupTime ELSE 0
        main == pushMainData(flat, t1)
        t2   == t1 + SumDurations(flat)
        cool == IF w.cooldownTime > 0
                THEN <<[id |-> "cooldown", type |-> "walking", duration |-> w.cooldownTime,
                        intensity |-> "low",
                        startTime |-> t2, endTime |-> t2 + w.cooldownTime,
                        isWarmupCooldown |-> TRUE,
                        finalIntensity |-> getWarmupCooldownIntensity]>>
                ELSE <<>>
    IN warm \o main \o cool

\* ------------------------------------------------------- TimerPage state
VARIABLES
    workout,                 \* the loaded WorkoutPlan
    timerState, currentExerciseIndex, remainingTime, totalElapsedTime,
    countdownValue, nextExerciseIndex, exerciseStatuses, showStopConfirm,
    currentExerciseElapsed, exerciseElapsedTimes,      \* useState
    pausedTimeRef,           \* pausedTimeRef.current
    sinceStartTime,          \* Date.now() - startTimeRef.current
    sinceExerciseStart,      \* Date.now() - currentExerciseStartRef.current
    intervalRef,             \* ms until the playback interval fires, or NoTimer
    countdownIntervalRef,    \* ms until the countdown interval fires, or NoTimer
    tickTotalElapsedTime,    \* totalElapsedTime of the render whose tick effect is live
    countdownType, countdownTargetIndex,
    countdownTotalElapsedTime, \* arguments and totalElapsedTime captured by the live countdown callback
    warningCues,             \* playBeep(600, 150) calls of the current step, per threshold
    lastCmd,                 \* the handler or callback that ran last
    mounted,                 \* TimerPage is mounted
    countdownTones,          \* frequencies of the playBeep calls of the latest countdown
    cardIntervals, cardTotalTime,  \* countIntervals(timer), calculateTotalTime(timer) of a card
    timeline,                \* the completeTimeline a render built
    flat,                    \* flattenWorkout(workout.items)
    flatMerged,              \* flattenWorkout of the single Set with the multiplied repetitions
    flatChildren,            \* flattenWorkout of the children of the Set among workout.items
    timelineData,            \* the timelineData a render of ViewTimerPage built
    applied,                 \* which of the functions have been applied
    intensityArgs,           \* the (type, intensity) arguments of the calls still to make
    intensities,             \* what calculateFinalIntensity returned, call by call
    editorPage,              \* "create" (CreateTimerPage), "edit" (EditTimerPage), "view" after a save
    editorWorkout,           \* the workout state of the editor page
    storedWorkouts,          \* the list under STORAGE_KEY in localStorage
    idsGenerated,            \* how many ids generateId has returned
    editorAlert              \* the alert the last editor handler raised, "none" if it raised none

stateVars == <<timerState, currentExerciseIndex, remainingTime, totalElapsedTime,
               countdownValue, nextExerciseIndex, exerciseStatuses, showStopConfirm,
               currentExerciseElapsed, exerciseElapsedTimes>>
refVars == <<pausedTimeRef, sinceStartTime, sinceExerciseStart, intervalRef,
             countdownIntervalRef>>
closureVars == <<tickTotalElapsedTime, countdownType, countdownTargetIndex,
                 countdownTotalElapsedTime>>
pureVars == <<cardIntervals, cardTotalTime, timeline, flat, flatMerged, flatChildren,
              timelineData, applied>>
intensityVars == <<intensityArgs, intensities>>
editorVars == <<editorPage, editorWorkout, storedWorkouts, idsGenerated, editorAlert>>
offPageVars == <<pureVars, intensityVars, editorVars>>
pageVars == <<stateVars, refVars, closureVars, warningCues, lastCmd, mounted,
              countdownTones>>
vars == <<workout, pageVars, offPageVars>>

Undefined == -1              \* an omitted targetIndex

Max(a, b) == IF a >= b THEN a ELSE b
Min(a, b) == IF a <= b THEN a ELSE b

completeTimeline == completeTimelineOf(workout)
TimelineLen == Len(completeTimeline)
\* completeTimeline[i] is defined
HasExercise(i) == i >= 0 /\ i < TimelineLen
ExerciseAt(i) == completeTimeline[i + 1]
\* completeTimeline[0]?.duration || 0
FirstDuration == IF HasExercise(0) THEN ExerciseAt(0).duration ELSE 0

\* completeTimeline.map((_, index) => (index === 0 ? "running" : "pending"))
InitialStatuses(n) == [i \in 0..(n - 1) |-> IF i = 0 THEN "running" ELSE "pending"]
\* a reset that keeps the statuses
ResetStatusesKeep(prev) == prev
\* prev.map((_, index) => (index === 0 ? "running" : "pending"))
ResetStatuses(prev) == [i \in DOMAIN prev |-> IF i = 0 THEN "running" ELSE "pending"]

\* newStatuses[i] = mark; if (i + 1 < newStatuses.length) newStatuses[i + 1] = "running"
AdvanceStatuses(prev, i, mark) ==
    [k \in DOMAIN prev |->
        IF k = i THEN mark
        ELSE IF k = i + 1 /\ i + 1 < Cardinality(DOMAIN prev) THEN "running"
        ELSE prev[k]]
\* a tick that marks the finished step and forgets the next one
TickStatusesForgetNext(prev, i) == [k \in DOMAIN prev |-> IF k = i THEN "completed" ELSE prev[k]]
TickStatuses(prev, i) == AdvanceStatuses(prev, i, "completed")
\* a skip that marks the step "completed"
SkipStatusesAsCompleted(prev, i) == AdvanceStatuses(prev, i, "completed")
SkipStatuses(prev, i) == AdvanceStatuses(prev, i, "skipped")

\* a transition that targets the current step again
TransitionTargetSame(i) == i
\* a transition that jumps over the next step
TransitionTargetSkipsOne(i) == i + 2
\* startCountdown("transition", currentExerciseIndex + 1)
TransitionTarget(i) == i + 1

\* newTimes[i] = v on a copy of prev
SetElapsedTime(prev, i, v) == [k \in (DOMAIN prev) \cup {i} |-> IF k = i THEN v ELSE prev[k]]

\* Math.floor((now - ref) / 1000), for since = now - ref
ElapsedSeconds(since) == since \div MsPerSec

\* if (currentRemaining === 3 || currentRemaining === 2 || currentRemaining === 1) playBeep(600, 150)
WarningCue(currentRemaining) == currentRemaining \in {1, 2, 3}
NoCues == [t \in 1..3 |-> 0]

\* the delay of a timer after dt ms have passed
After(timer, dt) == IF timer = NoTimer THEN NoTimer ELSE timer - dt

TypeOK ==
    /\ workout \in Plans
    /\ timerState \in {"ready", "countdown-start", "countdown-transition",
                       "running", "paused", "completed"}
    /\ currentExerciseIndex \in Nat
    /\ remainingTime \in Nat /\ totalElapsedTime \in Nat
    /\ currentExerciseElapsed \in Nat /\ pausedTimeRef \in Nat
    /\ countdownValue \in 0..StartCountdown
    /\ showStopConfirm \in BOOLEAN
    /\ intervalRef \in {NoTimer} \cup (1..TickMs)
    /\ countdownIntervalRef \in {NoTimer} \cup (1..CountdownMs)
    /\ sinceStartTime \in Nat /\ sinceExerciseStart \in Nat
    /\ mounted \in BOOLEAN
    /\ Len(countdownTones) <= StartCountdown

\* the state after TimerPage mounted with a plan of plans
InitWith(plans) ==
    /\ workout \in plans
    /\ timerState = "ready"
    /\ currentExerciseIndex = 0
    /\ remainingTime = FirstDuration
    /\ totalElapsedTime = 0
    /\ countdownValue = 0
    /\ nextExerciseIndex = 0
    /\ exerciseStatuses = InitialStatuses(TimelineLen)
    /\ showStopConfirm = FALSE
    /\ currentExerciseElapsed = 0
    /\ exerciseElapsedTimes = [i \in 0..(TimelineLen - 1) |-> 0]
    /\ pausedTimeRef = 0
    /\ sinceStartTime = 0
    /\ sinceExerciseStart = 0
    /\ intervalRef = NoTimer
    /\ countdownIntervalRef = NoTimer
    /\ tickTotalElapsedTime = 0
    /\ countdownType = "start"
    /\ countdownTargetIndex = Undefined
    /\ countdownTotalElapsedTime = 0
    /\ warningCues = NoCues
    /\ lastCmd = "load"
    /\ mounted = TRUE
    /\ countdownTones = <<>>
    /\ cardIntervals = 0
    /\ cardTotalTime = 0
    /\ timeline = <<>>
    /\ flat = <<>>
    /\ flatMerged = <<>>
    /\ flatChildren = <<>>
    /\ timelineData = <<>>
    /\ applied = {}

\* no call of calculateFinalIntensity is pending
NoIntensity ==
    /\ intensityArgs = <<>>
    /\ intensities = <<>>

\* no editor page is open
NoEditor ==
    /\ editorPage = "none"
    /\ editorWorkout = [name |-> <<>>, warmupTime |-> 0, cooldownTime |-> 0, items |-> <<>>]
    /\ storedWorkouts = <<>>
    /\ idsGenerated = 0
    /\ editorAlert = "none"

Init == InitWith(Plans) /\ NoIntensity /\ NoEditor

\* ------------------------------------------------------- startCountdown
\* a clearInterval that leaves the interval scheduled
clearIntervalLeaks(handle) == handle
\* clearInterval(handle)
clearInterval(handle) == NoTimer

\* a countdown that always lasts as long as a transition's
CountdownDurationShort(type) == TransitionCountdown
CountdownDuration(type) == IF type = "start" THEN StartCountdown ELSE TransitionCountdown

\* a countdown that always shows as a transition
CountdownStateTransition(type) == "countdown-transition"
\* setTimerState(type === "start" ? "countdown-start" : "countdown-transition")
CountdownState(type) == IF type = "start" THEN "countdown-start" ELSE "countdown-transition"

\* if (newValue > 0) playBeep(800, 200) else playBeep(1000, 400)
CountdownTone(newValue) == IF newValue > 0 THEN 800 ELSE 1000

\* startCountdown(type, targetIndex) called from a render whose totalElapsedTime
\* is capturedTotal
startCountdown(type, targetIndex, capturedTotal) ==
    /\ countdownValue' = CountdownDuration(type)
    /\ timerState' = CountdownState(type)
    /\ nextExerciseIndex' = (IF targetIndex # Undefined THEN targetIndex ELSE nextExerciseIndex)
    /\ countdownIntervalRef' = CountdownMs
    /\ countdownType' = type
    /\ countdownTargetIndex' = targetIndex
    /\ countdownTotalElapsedTime' = capturedTotal
    /\ countdownTones' = <<>>

\* pausedTimeRef.current = totalElapsedTime, in the countdown callback of a
\* transition: totalElapsedTime is the value the callback captured
TransitionPausedTime(capturedTotal) == capturedTotal

\* the callback of the countdown interval
CountdownTick ==
    /\ mounted
    /\ countdownIntervalRef # NoTimer
    /\ intervalRef = NoTimer \/ countdownIntervalRef < intervalRef
    /\ lastCmd' = "countdownTick"
    /\ countdownValue' = countdownValue - 1
    /\ countdownTones' = Append(countdownTones, CountdownTone(countdownValue - 1))
    /\ IF countdownValue - 1 <= 0
       THEN /\ countdownIntervalRef' = clearInterval(countdownIntervalRef)
            /\ sinceStartTime' = 0
            /\ sinceExerciseStart' = 0
            /\ currentExerciseElapsed' = 0
            /\ timerState' = "running"
            /\ warningCues' = NoCues
            /\ IF countdownType = "start"
               THEN /\ pausedTimeRef' = 0
                    /\ UNCHANGED <<currentExerciseIndex, remainingTime>>
               ELSE /\ currentExerciseIndex' = countdownTargetIndex
                    /\ pausedTimeRef' = TransitionPausedTime(countdownTotalElapsedTime)
                    \* index-change effect
                    /\ remainingTime' = (IF HasExercise(countdownTargetIndex)
                                         THEN ExerciseAt(countdownTargetIndex).duration
                                         ELSE remainingTime)
            \* tick effect of the render that shows "running"
            /\ IF HasExercise(currentExerciseIndex')
               THEN /\ intervalRef' = TickMs
                    /\ tickTotalElapsedTime' = totalElapsedTime
               ELSE /\ intervalRef' = NoTimer
                    /\ UNCHANGED tickTotalElapsedTime
       ELSE /\ countdownIntervalRef' = CountdownMs
            /\ sinceStartTime' = sinceStartTime + countdownIntervalRef
            /\ sinceExerciseStart' = sinceExerciseStart + countdownIntervalRef
            /\ intervalRef' = After(intervalRef, countdownIntervalRef)
            /\ UNCHANGED <<currentExerciseElapsed, timerState, warningCues, pausedTimeRef,
                           currentExerciseIndex, remainingTime, tickTotalElapsedTime>>
    /\ UNCHANGED <<workout, totalElapsedTime, nextExerciseIndex, exerciseStatuses,
                   showStopConfirm, exerciseElapsedTimes, countdownType,
                   countdownTargetIndex, countdownTotalElapsedTime, mounted, offPageVars>>

\* ------------------------------------------------------ the playback tick
\* a remaining time that is one second short
RemainingTimeShort(currentRemaining) == Max(0, currentRemaining - 1)
\* setRemainingTime(Math.max(0, currentRemaining))
RemainingTime(currentRemaining) == Max(0, currentRemaining)

CountCue(cues, currentRemaining) ==
    IF WarningCue(currentRemaining)
    THEN [cues EXCEPT ![currentRemaining] = Min(BeepCap, @ + 1)]
    ELSE cues

\* the callback of the playback interval (created by the tick effect)
PlaybackTick ==
    /\ mounted
    /\ intervalRef # NoTimer
    /\ countdownIntervalRef = NoTimer \/ intervalRef <= countdownIntervalRef
    /\ lastCmd' = "tick"
    /\ sinceStartTime' = sinceStartTime + intervalRef
    /\ sinceExerciseStart' = sinceExerciseStart + intervalRef
    /\ LET currentExercise == ExerciseAt(currentExerciseIndex)
           elapsed == ElapsedSeconds(sinceStartTime') + pausedTimeRef
           currentElapsed == ElapsedSeconds(sinceExerciseStart')
           currentRemaining == currentExercise.duration - currentElapsed
       IN /\ totalElapsedTime' = elapsed
          /\ currentExerciseElapsed' = currentElapsed
          /\ remainingTime' = RemainingTime(currentRemaining)
          /\ warningCues' = CountCue(warningCues, currentRemaining)
          /\ IF currentRemaining <= 0
             THEN /\ exerciseStatuses' = TickStatuses(exerciseStatuses, currentExerciseIndex)
                  /\ intervalRef' = clearInterval(intervalRef)
                  /\ IF currentExerciseIndex < TimelineLen - 1
                     THEN startCountdown("transition", TransitionTarget(currentExerciseIndex),
                                         tickTotalElapsedTime)
                     ELSE /\ timerState' = "completed"
                          /\ countdownIntervalRef' = After(countdownIntervalRef, intervalRef)
                          /\ UNCHANGED <<countdownValue, nextExerciseIndex, countdownType,
                                         countdownTargetIndex, countdownTotalElapsedTime,
                                         countdownTones>>
             ELSE /\ intervalRef' = TickMs
                  /\ countdownIntervalRef' = After(countdownIntervalRef, intervalRef)
                  /\ UNCHANGED <<exerciseStatuses, timerState, countdownValue,
                                 nextExerciseIndex, countdownType,
                                 countdownTargetIndex, countdownTotalElapsedTime,
                                 countdownTones>>
    /\ UNCHANGED <<workout, currentExerciseIndex, showStopConfirm, exerciseElapsedTimes,
                   pausedTimeRef, tickTotalElapsedTime, mounted, offPageVars>>

\* ------------------------------------------------------------ the views
\* the controls card: not the completed view, not a countdown view, and
\* {currentExercise && (...)}
ControlsRendered ==
    /\ mounted
    /\ timerState \in {"ready", "running", "paused"}
    /\ HasExercise(currentExerciseIndex)
\* {showStopConfirm && (...)} in the main view
StopDialogRendered ==
    /\ mounted
    /\ timerState \in {"ready", "running", "paused"}
    /\ showStopConfirm

countdownVars == <<countdownValue, nextExerciseIndex, countdownIntervalRef,
                   countdownType, countdownTargetIndex, countdownTotalElapsedTime,
                   countdownTones>>

\* ------------------------------------------------- handleStart, handlePause
\* a resume that restarts the step: currentExerciseStartRef.current = now
ResumeSinceExerciseStartZero(stepElapsed) == 0
\* currentExerciseStartRef.current = now - currentExerciseElapsed * 1000
ResumeSinceExerciseStart(stepElapsed) == stepElapsed * MsPerSec

handleStart ==
    /\ ControlsRendered
    /\ timerState \in {"ready", "paused"}
    /\ lastCmd' = "start"
    /\ IF timerState = "ready"
       THEN /\ startCountdown("start", Undefined, totalElapsedTime)
            /\ UNCHANGED <<sinceStartTime, sinceExerciseStart, intervalRef,
                           tickTotalElapsedTime>>
       ELSE /\ sinceStartTime' = 0
            /\ sinceExerciseStart' = ResumeSinceExerciseStart(currentExerciseElapsed)
            /\ timerState' = "running"
            \* tick effect of the render that shows "running"
            /\ intervalRef' = TickMs
            /\ tickTotalElapsedTime' = totalElapsedTime
            /\ UNCHANGED countdownVars
    /\ UNCHANGED <<workout, currentExerciseIndex, remainingTime, totalElapsedTime,
                   exerciseStatuses, showStopConfirm, currentExerciseElapsed,
                   exerciseElapsedTimes, pausedTimeRef, warningCues, mounted, offPageVars>>

\* pausedTimeRef.current = totalElapsedTime
PausedTime(total) == total

handlePause ==
    /\ ControlsRendered
    /\ timerState = "running"
    /\ lastCmd' = "pause"
    /\ pausedTimeRef' = PausedTime(totalElapsedTime)
    /\ timerState' = "paused"
    \* cleanup of the tick effect
    /\ intervalRef' = clearInterval(intervalRef)
    /\ UNCHANGED <<workout, currentExerciseIndex, remainingTime, totalElapsedTime,
                   countdownVars, exerciseStatuses, showStopConfirm,
                   currentExerciseElapsed, exerciseElapsedTimes, sinceStartTime,
                   sinceExerciseStart, tickTotalElapsedTime, warningCues, mounted,
                   offPageVars>>

\* ------------------------------------------------------------ handleSkip
\* a guard that is off by one: currentExerciseIndex < completeTimeline.length
SkipAllowedOffByOne(i) == i < TimelineLen
\* if (currentExerciseIndex < completeTimeline.length - 1)
SkipAllowed(i) == i < TimelineLen - 1

\* The skip button is rendered while running; the handler has its own guard.
handleSkip ==
    /\ ControlsRendered
    /\ timerState = "running"
    /\ lastCmd' = "skip"
    /\ IF SkipAllowed(currentExerciseIndex)
       THEN /\ exerciseElapsedTimes' =
                  SetElapsedTime(exerciseElapsedTimes, currentExerciseIndex,
                                 currentExerciseElapsed)
            /\ exerciseStatuses' = SkipStatuses(exerciseStatuses, currentExerciseIndex)
            /\ intervalRef' = clearInterval(intervalRef)
            /\ totalElapsedTime' = ExerciseAt(currentExerciseIndex).endTime
            /\ pausedTimeRef' = ExerciseAt(currentExerciseIndex).endTime
            /\ startCountdown("transition", TransitionTarget(currentExerciseIndex),
                            totalElapsedTime)
       ELSE UNCHANGED <<exerciseElapsedTimes, exerciseStatuses, intervalRef,
                        totalElapsedTime, pausedTimeRef, timerState, countdownVars>>
    /\ UNCHANGED <<workout, currentExerciseIndex, remainingTime, showStopConfirm,
                   currentExerciseElapsed, sinceStartTime, sinceExerciseStart,
                   tickTotalElapsedTime, warningCues, mounted, offPageVars>>

\* ------------------------------------------------ handleStop, confirmStop
\* the body of confirmStop, with the effects of the render that follows
ConfirmStopBody ==
    /\ countdownIntervalRef' = clearInterval(countdownIntervalRef)
    /\ timerState' = "ready"
    /\ currentExerciseIndex' = 0
    /\ remainingTime' = FirstDuration
    /\ totalElapsedTime' = 0
    /\ currentExerciseElapsed' = 0
    /\ exerciseElapsedTimes' = <<>>
    /\ pausedTimeRef' = 0
    /\ showStopConfirm' = FALSE
    /\ exerciseStatuses' = ResetStatuses(exerciseStatuses)
    \* cleanup of the tick effect
    /\ intervalRef' = clearInterval(intervalRef)
    /\ warningCues' = NoCues
    /\ UNCHANGED <<workout, countdownValue, nextExerciseIndex, sinceStartTime,
                   sinceExerciseStart, closureVars, mounted, countdownTones, offPageVars>>

\* a stop that asks for confirmation only while running
NeedsConfirmRunningOnly(state) == state = "running"
\* if (timerState === "running" || timerState === "paused")
NeedsConfirm(state) == state \in {"running", "paused"}

\* the stop button of the controls, and the restart button of the completed view
handleStop ==
    /\ \/ ControlsRendered /\ timerState \in {"running", "paused"}
       \/ mounted /\ timerState = "completed"
    /\ lastCmd' = "stop"
    /\ IF NeedsConfirm(timerState)
       THEN /\ showStopConfirm' = TRUE
            /\ UNCHANGED <<workout, timerState, currentExerciseIndex, remainingTime,
                           totalElapsedTime, countdownValue, nextExerciseIndex,
                           exerciseStatuses, currentExerciseElapsed, exerciseElapsedTimes,
                           refVars, closureVars, warningCues, mounted, countdownTones,
                           offPageVars>>
       ELSE ConfirmStopBody

\* the confirm button of the stop dialog
confirmStop ==
    /\ StopDialogRendered
    /\ lastCmd' = "confirmStop"
    /\ ConfirmStopBody

\* the cancel button of the stop dialog: setShowStopConfirm(false)
cancelStop ==
    /\ StopDialogRendered
    /\ lastCmd' = "cancelStop"
    /\ showStopConfirm' = FALSE
    /\ UNCHANGED <<workout, timerState, currentExerciseIndex, remainingTime,
                   totalElapsedTime, countdownValue, nextExerciseIndex, exerciseStatuses,
                   currentExerciseElapsed, exerciseElapsedTimes, refVars, closureVars,
                   warningCues, mounted, countdownTones, offPageVars>>

\* ------------------------------------------------------------- the clock
\* a second passes while no interval is scheduled
Wait ==
    /\ mounted
    /\ intervalRef = NoTimer
    /\ countdownIntervalRef = NoTimer
    /\ sinceStartTime + MsPerSec <= MaxIdleMs
    /\ sinceExerciseStart + MsPerSec <= MaxIdleMs
    /\ sinceStartTime' = sinceStartTime + MsPerSec
    /\ sinceExerciseStart' = sinceExerciseStart + MsPerSec
    /\ lastCmd' = "wait"
    /\ UNCHANGED <<workout, stateVars, pausedTimeRef, intervalRef, countdownIntervalRef,
                   closureVars, warningCues, mounted, countdownTones, offPageVars>>

\* ------------------------------------------------------------- the unmount
\* TimerPage unmounts (a Link of the page, or the browser's navigation): the
\* cleanup of the tick effect runs; nothing clears the countdown interval
Unmount ==
    /\ mounted
    /\ mounted' = FALSE
    /\ intervalRef' = clearInterval(intervalRef)
    /\ lastCmd' = "unmount"
    /\ UNCHANGED <<workout, stateVars, pausedTimeRef, sinceStartTime, sinceExerciseStart,
                   countdownIntervalRef, closureVars, warningCues, countdownTones,
                   offPageVars>>

\* the countdown interval fires after the unmount.  The state setters no longer
\* render anything, so the hook state stays; whether React still evaluates the
\* updater of setCountdownValue (its eager path) is left open.  When it does,
\* and prev - 1 <= 0, the callback clears its interval and writes the refs.
\* Nothing reads the stored instants any more, so they are not aged.
OrphanCountdownTick ==
    /\ ~mounted
    /\ countdownIntervalRef # NoTimer
    /\ lastCmd' = "orphanCountdownTick"
    /\ \E updaterRuns \in BOOLEAN :
        IF updaterRuns /\ countdownValue - 1 <= 0
        THEN /\ countdownIntervalRef' = clearInterval(countdownIntervalRef)
             /\ sinceStartTime' = 0
             /\ sinceExerciseStart' = 0
             /\ pausedTimeRef' = (IF countdownType = "start" THEN 0
                                  ELSE TransitionPausedTime(countdownTotalElapsedTime))
        ELSE /\ countdownIntervalRef' = CountdownMs
             /\ UNCHANGED <<sinceStartTime, sinceExerciseStart, pausedTimeRef>>
    /\ UNCHANGED <<workout, stateVars, intervalRef, closureVars, warningCues, mounted,
                   countdownTones, offPageVars>>

Next ==
    \/ CountdownTick
    \/ PlaybackTick
    \/ handleStart
    \/ handlePause
    \/ handleSkip
    \/ handleStop
    \/ confirmStop
    \/ cancelStop
    \/ Wait
    \/ Unmount
    \/ OrphanCountdownTick

Spec == Init /\ [][Next]_vars

\* a session in which the user starts, may skip, and never pauses, stops or
\* leaves; the two intervals fire as long as they are scheduled
LiveNext ==
    \/ CountdownTick
    \/ PlaybackTick
    \/ handleStart
    \/ handleSkip

LiveSpec ==
    /\ Init
    /\ [][LiveNext]_vars
    /\ WF_vars(CountdownTick)
    /\ WF_vars(PlaybackTick)

\* ------------------------------------------- the functions of the workout model
\* a timer card of HomePage: calculateTotalTime(timer), countIntervals(timer)
ShowCard ==
    /\ "card" \notin applied
    /\ cardTotalTime' = calculateTotalTime(workout)
    /\ cardIntervals' = countIntervals(workout)
    /\ applied' = applied \cup {"card"}
    /\ UNCHANGED <<workout, pageVars, intensityVars, editorVars, flatChildren, timelineData,
                   timeline, flat, flatMerged>>

\* a render of TimerPage builds completeTimeline
BuildTimeline ==
    /\ "timeline" \notin applied
    /\ timeline' = completeTimelineOf(workout)
    /\ applied' = applied \cup {"timeline"}
    /\ UNCHANGED <<workout, pageVars, intensityVars, editorVars, flatChildren, timelineData,
                   cardIntervals, cardTotalTime, flat, flatMerged>>

\* flattenWorkout(workout.items)
Flatten ==
    /\ "flatten" \notin applied
    /\ flat' = flattenWorkout(workout.items, 1)
    /\ applied' = applied \cup {"flatten"}
    /\ UNCHANGED <<workout, pageVars, intensityVars, editorVars, flatChildren, timelineData,
                   cardIntervals, cardTotalTime, timeline, flatMerged>>

\* the items are one Set whose only child is a Set of leaf items
IsNested(items) == items \in NestedItemLists
\* the single Set with the multiplied repetitions around the innermost children
MergedSet(items) ==
    LET outer == items[1]
        inner == outer.items[1]
    IN WorkoutSet(outer.repetitions * inner.repetitions, inner.items)

\* flattenWorkout([Set(r1 * r2, L)]) for items [Set(r1, [Set(r2, L)])]
FlattenMerged ==
    /\ "merged" \notin applied
    /\ IsNested(workout.items)
    /\ flatMerged' = flattenWorkout(<<MergedSet(workout.items)>>, 1)
    /\ applied' = applied \cup {"merged"}
    /\ UNCHANGED <<workout, pageVars, intensityVars, editorVars, flatChildren, timelineData,
                   cardIntervals, cardTotalTime, timeline, flat>>

\* the items hold a Set
HasSet(items) == \E k \in 1..Len(items) : items[k].type = "set"
SetIndex(items) == CHOOSE k \in 1..Len(items) : items[k].type = "set"

\* flattenWorkout(children) for the children of the Set among workout.items
FlattenChildren ==
    /\ "children" \notin applied
    /\ HasSet(workout.items)
    /\ flatChildren' = flattenWorkout(workout.items[SetIndex(workout.items)].items, 1)
    /\ applied' = applied \cup {"children"}
    /\ UNCHANGED <<workout, pageVars, intensityVars, editorVars, cardIntervals, cardTotalTime,
                   timeline, flat, flatMerged, timelineData>>

\* a render of ViewTimerPage builds timelineData
BuildTimelineData ==
    /\ "timelineData" \notin applied
    /\ timelineData' = timelineDataOf(workout)
    /\ applied' = applied \cup {"timelineData"}
    /\ UNCHANGED <<workout, pageVars, intensityVars, editorVars, cardIntervals, cardTotalTime,
                   timeline, flat, flatMerged, flatChildren>>

PureInit == InitWith(RichPlans) /\ NoIntensity /\ NoEditor

PureNext ==
    \/ ShowCard
    \/ BuildTimeline
    \/ Flatten
    \/ FlattenMerged
    \/ FlattenChildren
    \/ BuildTimelineData

\* ------------------------------------------------- calculateFinalIntensity
MaxCalls == 2        \* most calls of calculateFinalIntensity of one run
IntensityTypes == {"walking", "running", "rest", "cycling"}
IntensityLevels == {"low", "medium", "high", "undefined"}
IntensityCalls == [type : IntensityTypes, intensity : IntensityLevels]
IntensityRuns == UNION {[1..n -> IntensityCalls] : n \in 1..MaxCalls}
NoPlan == [warmupTime |-> 0, cooldownTime |-> 0, items |-> <<>>]

IntensityInit ==
    /\ InitWith({NoPlan})
    /\ NoEditor
    /\ intensityArgs \in IntensityRuns
    /\ intensities = <<>>

\* the next call: calculateFinalIntensity(type, intensity)
FinalIntensity ==
    /\ Len(intensities) < Len(intensityArgs)
    /\ LET call == intensityArgs[Len(intensities) + 1]
       IN intensities' = Append(intensities,
                                calculateFinalIntensity(call.type, call.intensity))
    /\ UNCHANGED <<workout, pageVars, pureVars, editorVars, intensityArgs>>

IntensityNext == FinalIntensity

IntensitySpec == IntensityInit /\ [][IntensityNext]_vars

PureSpec == PureInit /\ [][PureNext]_vars

\* --------------------------------------------- CreateTimerPage, EditTimerPage
MaxIds == 2          \* generateId returns at most this many ids
DefaultWarmup == 300 \* warmupTime: 300 and cooldownTime: 300 of a new plan
SecPerMin == 60      \* Number.parseInt(e.target.value) * 60

\* generateId: Date.now() and Math.random() give an id no earlier call gave;
\* the n-th call returns n
generateId(n) == n + 1

\* a name is its sequence of characters
Names == {<<>>, <<" ">>, <<" ", "a", " ">>}
RECURSIVE trimStart(_)
trimStart(name) ==
    IF name # <<>> /\ Head(name) = " " THEN trimStart(Tail(name)) ELSE name
RECURSIVE trimEnd(_)
trimEnd(name) ==
    IF name # <<>> /\ name[Len(name)] = " "
    THEN trimEnd(SubSeq(name, 1, Len(name) - 1)) ELSE name
\* String.prototype.trim
trim(name) == trimEnd(trimStart(name))

\* a check that forgets to trim
NameMissingNoTrim(name) == name = <<>>
\* !workout.name.trim()
NameMissing(name) == trim(name) = <<>>

\* { ...item, ...updates }
Merge(item, updates) ==
    [k \in (DOMAIN item) \cup (DOMAIN updates) |->
        IF k \in DOMAIN updates THEN updates[k] ELSE item[k]]

RECURSIVE updateInItems(_, _, _)
updateInItems(items, itemId, updates) ==
    [k \in 1..Len(items) |->
        LET item == items[k] IN
        IF item.id = itemId THEN Merge(item, updates)
        ELSE IF item.type = "set"
             THEN [item EXCEPT !.items = updateInItems(item.items, itemId, updates)]
             ELSE item]

RECURSIVE addToParent(_, _, _)
addToParent(items, parentId, newItem) ==
    [k \in 1..Len(items) |->
        LET item == items[k] IN
        IF item.id = parentId /\ item.type = "set"
        THEN [item EXCEPT !.items = Append(item.items, newItem)]
        ELSE IF item.type = "set"
             THEN [item EXCEPT !.items = addToParent(item.items, parentId, newItem)]
             ELSE item]

RECURSIVE removeFromItems(_, _)
\* items.filter((item) => item.id !== itemId).map(...)
removeFromItems(items, itemId) ==
    IF items = <<>> THEN <<>>
    ELSE LET item == Head(items)
             rest == removeFromItems(Tail(items), itemId)
         IN IF item.id = itemId THEN rest
            ELSE <<IF item.type = "set"
                   THEN [item EXCEPT !.items = removeFromItems(item.items, itemId)]
                   ELSE item>> \o rest

\* items.findIndex((item) => item.id === itemId), 0-based, -1 when absent
findIndex(items, itemId) ==
    IF \E k \in 1..Len(items) : items[k].id = itemId
    THEN (CHOOSE k \in 1..Len(items) :
             /\ items[k].id = itemId
             /\ \A j \in 1..(k - 1) : items[j].id # itemId) - 1
    ELSE -1

\* a swap that writes one side only
SwapItemsOneSide(items, i, j) == [items EXCEPT ![i + 1] = items[j + 1]]
\* [newItems[i], newItems[j]] = [newItems[j], newItems[i]], 0-based i and j
SwapItems(items, i, j) == [items EXCEPT ![i + 1] = items[j + 1], ![j + 1] = items[i + 1]]

RECURSIVE moveInItems(_, _, _)
moveInItems(items, itemId, direction) ==
    LET index == findIndex(items, itemId) IN
    IF index = -1
    THEN [k \in 1..Len(items) |->
            LET item == items[k] IN
            IF item.type = "set"
            THEN [item EXCEPT !.items = moveInItems(item.items, itemId, direction)]
            ELSE item]
    ELSE IF direction = "up" /\ index > 0 THEN SwapItems(items, index - 1, index)
    ELSE IF direction = "down" /\ index < Len(items) - 1 THEN SwapItems(items, index, index + 1)
    ELSE items

RECURSIVE Nodes(_)
\* the nodes of the tree in document order, each without its children
Nodes(items) ==
    IF items = <<>> THEN <<>>
    ELSE LET item == Head(items) IN
         (IF item.type = "set"
          THEN <<[id |-> item.id, type |-> "set", repetitions |-> item.repetitions]>>
               \o Nodes(item.items)
          ELSE <<item>>) \o Nodes(Tail(items))
NodeIds(items) == LET nodes == Nodes(items) IN {nodes[k].id : k \in 1..Len(nodes)}
SetIds(items) ==
    LET nodes == Nodes(items)
    IN {nodes[k].id : k \in {j \in 1..Len(nodes) : nodes[j].type = "set"}}
NodeWithId(items, id) ==
    LET nodes == Nodes(items) IN nodes[CHOOSE k \in 1..Len(nodes) : nodes[k].id = id]

\* the plan getWorkout(params.id) finds when EditTimerPage loads
StoredPlan ==
    [id |-> 1, name |-> <<"a">>, warmupTime |-> 0, cooldownTime |-> 0,
     items |-> <<[id |-> 2, type |-> "running", intensity |-> "medium", duration |-> 1]>>]

\* CreateTimerPage after construction, or EditTimerPage after loadWorkout
EditorInit ==
    /\ InitWith({NoPlan})
    /\ NoIntensity
    /\ editorPage \in {"create", "edit"}
    /\ editorAlert = "none"
    /\ IF editorPage = "create"
       THEN /\ editorWorkout = [name |-> <<>>, warmupTime |-> DefaultWarmup,
                                cooldownTime |-> DefaultWarmup, items |-> <<>>]
            /\ storedWorkouts = <<>>
            /\ idsGenerated = 0
       ELSE /\ editorWorkout = StoredPlan
            /\ storedWorkouts = <<StoredPlan>>
            /\ idsGenerated = 2

Editing == editorPage \in {"create", "edit"}
EditorFrame == UNCHANGED <<workout, pageVars, pureVars, intensityVars>>

\* onChange of the name input
setName ==
    /\ Editing
    /\ \E name \in Names :
         /\ editorWorkout' = [editorWorkout EXCEPT !.name = name]
         /\ editorAlert' = "none"
    /\ UNCHANGED <<editorPage, storedWorkouts, idsGenerated>>
    /\ EditorFrame

\* Number.parseInt(e.target.value) * 60 || 0
MinutesToSeconds(minutes) == IF minutes * SecPerMin # 0 THEN minutes * SecPerMin ELSE 0

\* onChange of the warmup input
setWarmupTime ==
    /\ Editing
    /\ \E minutes \in {0, 1} :
         /\ editorWorkout' = [editorWorkout EXCEPT !.warmupTime = MinutesToSeconds(minutes)]
         /\ editorAlert' = "none"
    /\ UNCHANGED <<editorPage, storedWorkouts, idsGenerated>>
    /\ EditorFrame

\* onChange of the cooldown input
setCooldownTime ==
    /\ Editing
    /\ \E minutes \in {0, 1} :
         /\ editorWorkout' = [editorWorkout EXCEPT !.cooldownTime = MinutesToSeconds(minutes)]
         /\ editorAlert' = "none"
    /\ UNCHANGED <<editorPage, storedWorkouts, idsGenerated>>
    /\ EditorFrame

NoParent == 0
\* currentParentId || undefined: the top level, or the Set whose add button opened the dialog
ParentIds == {NoParent} \cup SetIds(editorWorkout.items)

\* an add that pushes the new item twice
AddItemTwice(newItem, parentId) ==
    IF parentId # NoParent
    THEN [editorWorkout EXCEPT !.items = addToParent(editorWorkout.items, parentId, newItem)]
    ELSE [editorWorkout EXCEPT !.items = Append(Append(editorWorkout.items, newItem), newItem)]
\* if (parentId) addToParent(prev.items, parentId, newItem) else [...prev.items, newItem]
AddItem(newItem, parentId) ==
    IF parentId # NoParent
    THEN [editorWorkout EXCEPT !.items = addToParent(editorWorkout.items, parentId, newItem)]
    ELSE [editorWorkout EXCEPT !.items = Append(editorWorkout.items, newItem)]

addExercise ==
    /\ Editing
    /\ idsGenerated < MaxIds
    /\ \E parentId \in ParentIds :
         /\ editorWorkout' =
               AddItem([id |-> generateId(idsGenerated), type |-> "running",
                        intensity |-> "medium", duration |-> 1], parentId)
         /\ editorAlert' = "none"
    /\ idsGenerated' = idsGenerated + 1
    /\ UNCHANGED <<editorPage, storedWorkouts>>
    /\ EditorFrame

addRest ==
    /\ Editing
    /\ idsGenerated < MaxIds
    /\ \E parentId \in ParentIds :
         /\ editorWorkout' =
               AddItem([id |-> generateId(idsGenerated), type |-> "rest", duration |-> 1],
                       parentId)
         /\ editorAlert' = "none"
    /\ idsGenerated' = idsGenerated + 1
    /\ UNCHANGED <<editorPage, storedWorkouts>>
    /\ EditorFrame

addSet ==
    /\ Editing
    /\ idsGenerated < MaxIds
    /\ \E parentId \in ParentIds :
         /\ editorWorkout' =
               AddItem([id |-> generateId(idsGenerated), type |-> "set",
                        repetitions |-> 1, items |-> <<>>], parentId)
         /\ editorAlert' = "none"
    /\ idsGenerated' = idsGenerated + 1
    /\ UNCHANGED <<editorPage, storedWorkouts>>
    /\ EditorFrame

removeItem ==
    /\ Editing
    /\ \E itemId \in NodeIds(editorWorkout.items) :
         /\ editorWorkout' =
               [editorWorkout EXCEPT !.items = removeFromItems(editorWorkout.items, itemId)]
         /\ editorAlert' = "none"
    /\ UNCHANGED <<editorPage, storedWorkouts, idsGenerated>>
    /\ EditorFrame

MissingId == 0
moveItem ==
    /\ Editing
    /\ \E itemId \in NodeIds(editorWorkout.items) \cup {MissingId}, direction \in {"up", "down"} :
         /\ editorWorkout' =
               [editorWorkout EXCEPT
                   !.items = moveInItems(editorWorkout.items, itemId, direction)]
         /\ editorAlert' = "none"
    /\ UNCHANGED <<editorPage, storedWorkouts, idsGenerated>>
    /\ EditorFrame

\* the editingValues saveEdit hands to updateItem for an item of this type
EditingValues(item) ==
    IF item.type = "set" THEN [repetitions |-> 2]
    ELSE IF item.type = "rest" THEN [duration |-> 2]
    ELSE [type |-> "walking", duration |-> 2, intensity |-> "high"]

\* startEditing(item), the inputs, saveEdit: updateItem(editingItemId, editingValues)
updateItem ==
    /\ Editing
    /\ \E itemId \in NodeIds(editorWorkout.items) :
         /\ editorWorkout' =
               [editorWorkout EXCEPT
                   !.items = updateInItems(editorWorkout.items, itemId,
                                           EditingValues(NodeWithId(editorWorkout.items, itemId)))]
         /\ editorAlert' = "none"
    /\ UNCHANGED <<editorPage, storedWorkouts, idsGenerated>>
    /\ EditorFrame

\* createWorkout(workout): push { ...workout, id: generateId() } and save
createWorkout(workouts, w, n) == Append(workouts, Merge(w, [id |-> generateId(n)]))

\* workouts.findIndex((w) => w.id === id), 0-based, -1 when absent
findWorkout(workouts, id) ==
    IF \E k \in 1..Len(workouts) : workouts[k].id = id
    THEN (CHOOSE k \in 1..Len(workouts) : workouts[k].id = id) - 1
    ELSE -1
\* updateWorkout(workout): replace the stored plan of the same id, or change nothing
updateWorkout(workouts, w) ==
    LET index == findWorkout(workouts, w.id) IN
    IF index = -1 THEN workouts
    ELSE [workouts EXCEPT ![index + 1] = Merge(workouts[index + 1], w)]

\* handleSave of CreateTimerPage and of EditTimerPage
handleSave ==
    /\ Editing
    /\ IF NameMissing(editorWorkout.name)
       THEN /\ editorAlert' = "name"
            /\ UNCHANGED <<editorPage, storedWorkouts, idsGenerated>>
       ELSE IF Len(editorWorkout.items) = 0
       THEN /\ editorAlert' = "items"
            /\ UNCHANGED <<editorPage, storedWorkouts, idsGenerated>>
       ELSE IF editorPage = "create"
       THEN /\ storedWorkouts' = createWorkout(storedWorkouts, editorWorkout, idsGenerated)
            /\ idsGenerated' = idsGenerated + 1
            /\ editorPage' = "view"
            /\ editorAlert' = "none"
       ELSE /\ storedWorkouts' = updateWorkout(storedWorkouts, editorWorkout)
            /\ editorPage' =
                 IF findWorkout(storedWorkouts, editorWorkout.id) # -1 THEN "view" ELSE "edit"
            /\ editorAlert' =
                 IF findWorkout(storedWorkouts, editorWorkout.id) # -1 THEN "none" ELSE "error"
            /\ UNCHANGED idsGenerated
    /\ UNCHANGED editorWorkout
    /\ EditorFrame

EditorNext ==
    \/ setName
    \/ setWarmupTime
    \/ setCooldownTime
    \/ addExercise
    \/ addRest
    \/ addSet
    \/ removeItem
    \/ moveItem
    \/ updateItem
    \/ handleSave

EditorSpec == EditorInit /\ [][EditorNext]_vars

\* =================================================================== claims
ActiveStates == {"running", "paused", "countdown-start", "countdown-transition"}

\* C1: across an automatic transition the accumulated total elapsed time carries
\* forward: a playback tick of a step whose predecessor completed never
\* computes a total elapsed time smaller than the one before it (the first tick
\* of step i+1 is compared with the last tick of step i).
C1_ElapsedCarriesForward ==
    [][(/\ lastCmd' = "tick"
        /\ currentExerciseIndex > 0
        /\ exerciseStatuses[currentExerciseIndex - 1] = "completed")
       => totalElapsedTime' >= totalElapsedTime]_vars

\* C2: when the machine enters completed after every step ran to its end, the
\* total elapsed time equals calculateTotalTime(plan).
C2_CompletedTotalIsPlanTotal ==
    (/\ timerState = "completed"
     /\ \A i \in DOMAIN exerciseStatuses : exerciseStatuses[i] = "completed")
    => totalElapsedTime = calculateTotalTime(workout)

\* C3: within one playback session (no confirmed stop) the total elapsed time
\* never decreases from one observation to the next, in particular not after a
\* skip.
C3_TotalElapsedMonotonic ==
    [][timerState' # "ready" => totalElapsedTime' >= totalElapsedTime]_vars

\* C4: in running, paused and the two countdown states exactly one status is
\* "running", every index before it is "completed" or "skipped" and every index
\* after it is "pending".
C4_StatusShape ==
    timerState \in ActiveStates =>
        \E r \in DOMAIN exerciseStatuses :
            /\ exerciseStatuses[r] = "running"
            /\ \A k \in DOMAIN exerciseStatuses :
                /\ k < r => exerciseStatuses[k] \in {"completed", "skipped"}
                /\ k > r => exerciseStatuses[k] = "pending"

\* C4 witness: running the third step after a skipped and a completed step.
C4_Witness ==
    /\ timerState = "running"
    /\ currentExerciseIndex = 2
    /\ exerciseStatuses[0] = "skipped"
    /\ exerciseStatuses[1] = "completed"
    /\ lastCmd = "tick"

\* C5 as stated: in running, paused and the two countdown states the step at
\* the current step index has status "running".
C5_RunningAtCurrentIndex ==
    timerState \in ActiveStates =>
        /\ HasExercise(currentExerciseIndex)
        /\ exerciseStatuses[currentExerciseIndex] = "running"

\* C5 amended: in running, paused and countdown-start the step at the current
\* step index has status "running"; in countdown-transition the step index is
\* still the finished step's, and the "running" step is the countdown's target,
\* nextExerciseIndex = currentExerciseIndex + 1.
C5_RunningAtShownIndex ==
    /\ timerState \in {"running", "paused", "countdown-start"} =>
        /\ HasExercise(currentExerciseIndex)
        /\ exerciseStatuses[currentExerciseIndex] = "running"
    /\ timerState = "countdown-transition" =>
        /\ nextExerciseIndex = currentExerciseIndex + 1
        /\ HasExercise(nextExerciseIndex)
        /\ exerciseStatuses[nextExerciseIndex] = "running"
        /\ exerciseStatuses[currentExerciseIndex] \in {"completed", "skipped"}

\* C5 witness: the countdown of an automatic transition out of the second step.
C5_Witness ==
    /\ timerState = "countdown-transition"
    /\ currentExerciseIndex = 1
    /\ exerciseStatuses[1] = "completed"
    /\ countdownValue = 1

\* C6: pause/resume continuity: nothing that happens while paused (time passing
\* included) changes the total elapsed time, the step's elapsed time or the
\* remaining time, and the first tick after a resume computes the values they
\* had at the pause.
C6_PauseResumeContinuity ==
    [][/\ (timerState = "paused" /\ timerState' \in {"paused", "running"})
            => UNCHANGED <<totalElapsedTime, currentExerciseElapsed, remainingTime>>
       /\ (lastCmd = "start" /\ timerState = "running" /\ lastCmd' = "tick")
            => UNCHANGED <<totalElapsedTime, currentExerciseElapsed, remainingTime>>]_vars

\* C6 witness: the first tick after a resume in a step that had run for a
\* second or more (only a resume leaves the two stored instants apart).
C6_Witness ==
    /\ lastCmd = "tick"
    /\ timerState = "running"
    /\ currentExerciseElapsed >= 1
    /\ sinceStartTime = TickMs
    /\ sinceExerciseStart = currentExerciseElapsed * MsPerSec + TickMs

\* C7: after a confirmed stop (the dialog's confirm button, or the stop handler
\* outside running/paused) the machine is ready at step 0 with every elapsed
\* counter 0, pausedTimeRef 0, the remaining time of step 0 and the initial
\* statuses.
C7_ConfirmStopResets ==
    (lastCmd = "confirmStop" \/ (lastCmd = "stop" /\ ~showStopConfirm)) =>
        /\ timerState = "ready"
        /\ currentExerciseIndex = 0
        /\ totalElapsedTime = 0
        /\ currentExerciseElapsed = 0
        /\ pausedTimeRef = 0
        /\ remainingTime = ExerciseAt(0).duration
        /\ exerciseStatuses = InitialStatuses(TimelineLen)
        /\ intervalRef = NoTimer /\ countdownIntervalRef = NoTimer

\* C7 witness: a stop confirmed after a transition to the second step or later.
C7_Witness ==
    /\ lastCmd = "confirmStop"
    /\ nextExerciseIndex >= 1
    /\ TimelineLen >= 2

\* C8: a skip while running step i with a next step marks step i "skipped",
\* records the step's elapsed seconds, marks step i+1 "running", cancels the
\* playback tick and enters countdown-transition with target i+1; when that
\* countdown ends the machine runs step i+1 with step elapsed 0 and the
\* remaining time of step i+1, and the playback tick scheduled.
C8_SkipTransition ==
    [][/\ (lastCmd' = "skip" /\ currentExerciseIndex < TimelineLen - 1) =>
            /\ exerciseStatuses'[currentExerciseIndex] = "skipped"
            /\ exerciseStatuses'[currentExerciseIndex + 1] = "running"
            /\ currentExerciseIndex \in DOMAIN exerciseElapsedTimes'
            /\ exerciseElapsedTimes'[currentExerciseIndex] = currentExerciseElapsed
            /\ currentExerciseElapsed = ElapsedSeconds(sinceExerciseStart)
            /\ intervalRef' = NoTimer
            /\ timerState' = "countdown-transition"
            /\ nextExerciseIndex' = currentExerciseIndex + 1
            /\ countdownValue' = TransitionCountdown
            /\ currentExerciseIndex' = currentExerciseIndex
       /\ (/\ timerState = "countdown-transition"
           /\ exerciseStatuses[currentExerciseIndex] = "skipped"
           /\ timerState' = "running") =>
            /\ currentExerciseIndex' = currentExerciseIndex + 1
            /\ currentExerciseElapsed' = 0
            /\ remainingTime' = ExerciseAt(currentExerciseIndex + 1).duration
            /\ intervalRef' = TickMs
            /\ countdownIntervalRef' = NoTimer
            /\ exerciseStatuses' = exerciseStatuses]_vars

\* C8 witness: running the step after one that was skipped a second or more
\* into it.
C8_Witness ==
    /\ timerState = "running"
    /\ lastCmd = "countdownTick"
    /\ currentExerciseIndex >= 1
    /\ exerciseStatuses[currentExerciseIndex - 1] = "skipped"
    /\ exerciseElapsedTimes[currentExerciseIndex - 1] >= 1

\* C9: a skip command on the final step changes nothing: timerState, the step
\* index, the statuses, the recorded elapsed times, the total elapsed time and
\* both timers stay as they are.
C9_SkipOnFinalStepIsNoOp ==
    [][(lastCmd' = "skip" /\ currentExerciseIndex = TimelineLen - 1) =>
        UNCHANGED <<timerState, currentExerciseIndex, exerciseStatuses,
                    exerciseElapsedTimes, totalElapsedTime, intervalRef,
                    countdownIntervalRef, countdownValue, pausedTimeRef>>]_vars

\* C9 witness: the skip handler has run on the final step of a plan of two or
\* more steps (an accepted skip leaves running).
C9_Witness ==
    /\ lastCmd = "skip"
    /\ timerState = "running"
    /\ TimelineLen >= 2
    /\ currentExerciseIndex = TimelineLen - 1

\* C10: for each threshold 3, 2, 1 the warning cue fires at most once in a
\* step, however many ticks see that remaining time.
C10_CueOncePerThreshold ==
    \A t \in 1..3 : warningCues[t] <= 1

\* C11: timer exclusivity: at most one of the two repeating timers is
\* scheduled; the playback tick only while running, the countdown tick only in
\* countdown-start and countdown-transition, none in ready, paused, completed.
C11_TimerExclusivity ==
    /\ intervalRef = NoTimer \/ countdownIntervalRef = NoTimer
    /\ intervalRef # NoTimer => timerState = "running"
    /\ countdownIntervalRef # NoTimer =>
           timerState \in {"countdown-start", "countdown-transition"}
    /\ timerState \in {"ready", "paused", "completed"} =>
           intervalRef = NoTimer /\ countdownIntervalRef = NoTimer

\* C11 witness: the countdown a playback tick started is scheduled, and the
\* playback tick that started it is cancelled.
C11_Witness ==
    /\ lastCmd = "tick"
    /\ timerState = "countdown-transition"
    /\ countdownIntervalRef = CountdownMs
    /\ intervalRef = NoTimer

\* C12: after the timer view is unmounted, in any state, neither the playback
\* tick nor the countdown tick remains scheduled.
C12_UnmountReleasesTimers ==
    ~mounted => (intervalRef = NoTimer /\ countdownIntervalRef = NoTimer)

\* C13: the only changes of timerState are ready -> countdown-start (start),
\* countdown-start -> running (countdown end), running -> paused (pause),
\* paused -> running (resume), running -> countdown-transition (tick or skip),
\* countdown-transition -> running (countdown end), running -> completed (tick)
\* and any state -> ready by a confirmed stop; the start command acts only in
\* ready and paused, the pause and skip commands only in running.
C13_OnlyTheseTransitions ==
    [][/\ timerState' # timerState =>
            \/ timerState = "ready" /\ timerState' = "countdown-start" /\ lastCmd' = "start"
            \/ /\ timerState = "countdown-start" /\ timerState' = "running"
               /\ lastCmd' = "countdownTick"
            \/ timerState = "running" /\ timerState' = "paused" /\ lastCmd' = "pause"
            \/ timerState = "paused" /\ timerState' = "running" /\ lastCmd' = "start"
            \/ /\ timerState = "running" /\ timerState' = "countdown-transition"
               /\ lastCmd' \in {"tick", "skip"}
            \/ /\ timerState = "countdown-transition" /\ timerState' = "running"
               /\ lastCmd' = "countdownTick"
            \/ timerState = "running" /\ timerState' = "completed" /\ lastCmd' = "tick"
            \/ timerState' = "ready" /\ lastCmd' \in {"confirmStop", "stop"}
       /\ lastCmd' = "start" => timerState \in {"ready", "paused"}
       /\ lastCmd' = "pause" => timerState = "running"
       /\ lastCmd' = "skip" => timerState = "running"]_vars

\* C13 witness: a three-step session that completed after a skip (start, the
\* two countdowns, a skip, an automatic transition and the completion happened).
C13_Witness ==
    /\ timerState = "completed"
    /\ TimelineLen = 3
    /\ \E i \in DOMAIN exerciseStatuses : exerciseStatuses[i] = "skipped"
    /\ \E i \in DOMAIN exerciseStatuses : i < 2 /\ exerciseStatuses[i] = "completed"

\* C14: from ready the start command enters countdown-start with countdown
\* value 5; every countdown tick plays one tone; the fifth tick, and no earlier
\* one, enters running, its tone differs from the four before it, and running
\* begins at step index 0 with total elapsed 0, step elapsed 0, step 0
\* "running" and every other step "pending".
C14_StartCountdown ==
    [][/\ (lastCmd' = "start" /\ timerState = "ready") =>
            /\ timerState' = "countdown-start"
            /\ countdownValue' = 5
            /\ countdownTones' = <<>>
       /\ (timerState = "countdown-start" /\ lastCmd' = "countdownTick") =>
            /\ Len(countdownTones') = Len(countdownTones) + 1
            /\ IF Len(countdownTones') = 5
               THEN /\ timerState' = "running"
                    /\ \A k \in 1..4 : /\ countdownTones'[k] = countdownTones'[1]
                                       /\ countdownTones'[k] # countdownTones'[5]
                    /\ currentExerciseIndex' = 0
                    /\ totalElapsedTime' = 0
                    /\ currentExerciseElapsed' = 0
                    /\ exerciseStatuses' = InitialStatuses(TimelineLen)
               ELSE timerState' = "countdown-start"]_vars

\* C14 witness: running begins after the start countdown of a second session
\* (the session before it had reached a later step).
C14_Witness ==
    /\ lastCmd = "countdownTick"
    /\ timerState = "running"
    /\ countdownType = "start"
    /\ Len(countdownTones) = 5
    /\ nextExerciseIndex >= 1

\* C15: when a playback tick finds the remaining time of step i at zero and
\* step i+1 exists, it marks step i "completed" and step i+1 "running", cancels
\* the playback tick and enters countdown-transition with countdown value 3 and
\* target i+1; the third countdown tick, and no earlier one, enters running
\* with step index i+1, step elapsed 0 and the remaining time of step i+1; the
\* step index does not change before.
C15_AutomaticTransition ==
    [][/\ (/\ lastCmd' = "tick"
           /\ remainingTime' = 0
           /\ currentExerciseIndex < TimelineLen - 1) =>
            /\ exerciseStatuses'[currentExerciseIndex] = "completed"
            /\ exerciseStatuses'[currentExerciseIndex + 1] = "running"
            /\ intervalRef' = NoTimer
            /\ timerState' = "countdown-transition"
            /\ countdownValue' = 3
            /\ nextExerciseIndex' = currentExerciseIndex + 1
            /\ currentExerciseIndex' = currentExerciseIndex
            /\ countdownTones' = <<>>
       /\ (/\ timerState = "countdown-transition"
           /\ exerciseStatuses[currentExerciseIndex] = "completed"
           /\ lastCmd' = "countdownTick") =>
            /\ Len(countdownTones') = Len(countdownTones) + 1
            /\ IF Len(countdownTones') = 3
               THEN /\ timerState' = "running"
                    /\ currentExerciseIndex' = currentExerciseIndex + 1
                    /\ currentExerciseElapsed' = 0
                    /\ remainingTime' = ExerciseAt(currentExerciseIndex + 1).duration
               ELSE /\ timerState' = "countdown-transition"
                    /\ currentExerciseIndex' = currentExerciseIndex]_vars

\* C15 witness: the third step runs after two automatic transitions.
C15_Witness ==
    /\ lastCmd = "countdownTick"
    /\ timerState = "running"
    /\ currentExerciseIndex = 2
    /\ exerciseStatuses[0] = "completed"
    /\ exerciseStatuses[1] = "completed"
    /\ Len(countdownTones) = 3

\* C16: with an empty timeline playback can be started and its first tick
\* completes it: in ready the start control is there, and in running the
\* playback tick is scheduled.
C16_EmptyPlanCompletes ==
    (mounted /\ TimelineLen = 0) =>
        /\ timerState = "ready" => ControlsRendered
        /\ timerState = "running" => intervalRef # NoTimer

C18_CountIsTimelineLength ==
    {"card", "timeline"} \subseteq applied => cardIntervals = Len(timeline)

\* C18 witness: both were computed for a plan with nested Sets, no warmup and
\* a cooldown.
C18_Witness ==
    /\ {"card", "timeline"} \subseteq applied
    /\ IsNested(workout.items)
    /\ workout.warmupTime = 0 /\ workout.cooldownTime > 0
    /\ cardIntervals >= 5

\* C19: calculateTotalTime(P) is the endTime of the last step of the timeline
\* built for P, and 0 when that timeline is empty (plans of the data model:
\* warmupTime, cooldownTime >= 0, durations and repetitions >= 1).
C19_TotalIsLastEndTime ==
    {"card", "timeline"} \subseteq applied =>
        cardTotalTime = (IF timeline = <<>> THEN 0 ELSE timeline[Len(timeline)].endTime)

\* C19 witness: both were computed for a plan with a warmup, a repeated Set of
\* two leaf items and no cooldown.
C19_Witness ==
    /\ {"card", "timeline"} \subseteq applied
    /\ workout.warmupTime > 0 /\ workout.cooldownTime = 0
    /\ Len(workout.items) = 1
    /\ workout.items[1].type = "set"
    /\ workout.items[1].repetitions = 2
    /\ Len(workout.items[1].items) = 2
    /\ cardTotalTime >= 5

\* C20: flattening is associative under nesting: for r1, r2 >= 1 and a list L
\* of leaf items, flattenWorkout([Set(r1, [Set(r2, L)])]) is the sequence
\* flattenWorkout([Set(r1 * r2, L)]).
C20_FlattenNestedIsMerged ==
    (IsNested(workout.items) /\ {"flatten", "merged"} \subseteq applied) =>
        flat = flatMerged

\* C20 witness: both were computed for r1 = r2 = 2 and two different leaves.
C20_Witness ==
    /\ {"flatten", "merged"} \subseteq applied
    /\ IsNested(workout.items)
    /\ workout.items[1].repetitions = 2
    /\ workout.items[1].items[1].repetitions = 2
    /\ Len(workout.items[1].items[1].items) = 2
    /\ workout.items[1].items[1].items[1] # workout.items[1].items[1].items[2]
    /\ Len(flat) = 8

C27_StopOnlyOpensDialog ==
    [][/\ (lastCmd' = "stop" /\ timerState \in {"running", "paused"}) =>
            /\ showStopConfirm'
            /\ UNCHANGED <<workout, timerState, currentExerciseIndex, remainingTime,
                           totalElapsedTime, countdownValue, nextExerciseIndex,
                           exerciseStatuses, currentExerciseElapsed,
                           exerciseElapsedTimes, refVars, closureVars>>
       /\ (showStopConfirm' /\ timerState' = "running" /\ mounted') =>
            intervalRef' # NoTimer
       /\ lastCmd' = "cancelStop" =>
            /\ showStopConfirm /\ ~showStopConfirm'
            /\ UNCHANGED <<workout, timerState, currentExerciseIndex, remainingTime,
                           totalElapsedTime, countdownValue, nextExerciseIndex,
                           exerciseStatuses, currentExerciseElapsed,
                           exerciseElapsedTimes, refVars, closureVars>>
       /\ (timerState # "ready" /\ timerState' = "ready") =>
            \/ lastCmd' = "confirmStop" /\ showStopConfirm
            \/ lastCmd' = "stop" /\ timerState = "completed"]_vars

\* C27 witness: the session completed with the dialog open (opened during the
\* first step, it stayed open over an automatic transition).
C27_Witness ==
    /\ timerState = "completed"
    /\ showStopConfirm
    /\ lastCmd = "tick"
    /\ TimelineLen >= 2
    /\ \A i \in DOMAIN exerciseStatuses : exerciseStatuses[i] = "completed"

\* C28: for every plan with a step, once start is issued (and the user neither
\* pauses nor stops) the machine eventually reaches completed, under fair
\* firing of the two ticks; the step index only ever moves to the next index,
\* and completed is reached at the last index.
C28_EventuallyCompleted ==
    /\ (timerState = "countdown-start") ~> (timerState = "completed")
    /\ [][currentExerciseIndex' \in {currentExerciseIndex, currentExerciseIndex + 1}]_vars
    /\ [](timerState = "completed" => currentExerciseIndex = TimelineLen - 1)

\* C28 witness: a three-step session completed, one of its steps skipped.
C28_Witness ==
    /\ timerState = "completed"
    /\ TimelineLen = 3
    /\ currentExerciseIndex = 2
    /\ \E i \in DOMAIN exerciseStatuses : exerciseStatuses[i] = "skipped"

\* r consecutive copies of s, written by position
Copies(s, r) == [i \in 1..(r * Len(s)) |-> s[((i - 1) % Len(s)) + 1]]

\* C21: flattenWorkout expands in document order, outer-repeat-major: the
\* result holds no Set; a list of leaf items comes back verbatim; where the
\* list holds a Set, the result is the leaf items before it, then repetitions
\* consecutive copies of flattenWorkout(children), then the leaf items after
\* it (an empty list of children contributes nothing); a Set repeated r1 times
\* around a Set repeated r2 times yields r1 * r2 copies of the inner content.
C21_DocumentOrder ==
    "flatten" \in applied =>
        LET items == workout.items IN
        /\ \A i \in 1..Len(flat) : flat[i].type # "set"
        /\ ~HasSet(items) => flat = items
        /\ (HasSet(items) /\ "children" \in applied) =>
              LET k == SetIndex(items) IN
              flat = SubSeq(items, 1, k - 1)
                     \o Copies(flatChildren, items[k].repetitions)
                     \o SubSeq(items, k + 1, Len(items))
        /\ IsNested(items) =>
              flat = Copies(items[1].items[1].items,
                            items[1].repetitions * items[1].items[1].repetitions)

\* a Set repeated MaxReps times around a Set repeated MaxReps times around
\* two different leaf items has been flattened, and so have its children
C21_Witness ==
    /\ {"flatten", "children"} \subseteq applied
    /\ IsNested(workout.items)
    /\ workout.items[1].repetitions = MaxReps
    /\ workout.items[1].items[1].repetitions = MaxReps
    /\ Len(workout.items[1].items[1].items) = 2
    /\ workout.items[1].items[1].items[1] # workout.items[1].items[1].items[2]
    /\ Len(flatChildren) = MaxReps * 2
    /\ Len(flat) = MaxReps * MaxReps * 2

\* the step is the synthetic step with this id
IsSynthetic(step, id) == "id" \in DOMAIN step /\ step.id = id

\* the timeline tl of plan w is contiguous and complete
Contiguous(tl, w) ==
    LET main == flattenWorkout(w.items, 1)
        off  == IF w.warmupTime > 0 THEN 1 ELSE 0
    IN
    /\ Len(tl) > 0 => tl[1].startTime = 0
    /\ \A k \in 1..Len(tl) : tl[k].endTime = tl[k].startTime + tl[k].duration
    /\ \A k \in 2..Len(tl) : tl[k].startTime = tl[k - 1].endTime
    /\ Len(main) > 0 => tl[off + 1].startTime = w.warmupTime
    /\ (\E k \in 1..Len(tl) : IsSynthetic(tl[k], "warmup")) <=> w.warmupTime > 0
    /\ (\E k \in 1..Len(tl) : IsSynthetic(tl[k], "cooldown")) <=> w.cooldownTime > 0
    /\ w.warmupTime > 0 => IsSynthetic(tl[1], "warmup") /\ tl[1].duration = w.warmupTime
    /\ w.cooldownTime > 0 =>
          IsSynthetic(tl[Len(tl)], "cooldown") /\ tl[Len(tl)].duration = w.cooldownTime
    /\ \A k \in 1..Len(tl) : tl[k].duration > 0
    /\ Len(tl) = off + Len(main) + (IF w.cooldownTime > 0 THEN 1 ELSE 0)
    /\ \A j \in 1..Len(main) :
          /\ tl[off + j].type = main[j].type
          /\ tl[off + j].duration = main[j].duration

\* C22: the timeline TimerPage builds and the timelineData ViewTimerPage
\* builds are contiguous and complete: the first step starts at 0, every
\* endTime is startTime + duration, every later startTime is the previous
\* endTime, the first main step starts at warmupTime, the warmup (cooldown)
\* step is there exactly when warmupTime > 0 (cooldownTime > 0), and no step
\* has length zero.
C22_TimelineContiguous ==
    /\ "timeline" \in applied => Contiguous(timeline, workout)
    /\ "timelineData" \in applied => Contiguous(timelineData, workout)

\* both timelines of a plan with warmup, two main steps and cooldown are built
C22_Witness ==
    /\ {"timeline", "timelineData"} \subseteq applied
    /\ workout.warmupTime > 0
    /\ workout.cooldownTime > 0
    /\ Len(timeline) >= 4
    /\ Len(timelineData) = Len(timeline)
    /\ timeline[2].startTime = workout.warmupTime

\* the severity table
Severity ==
    [walking |-> [low |-> 1, medium |-> 2, high |-> 3],
     running |-> [low |-> 3, medium |-> 4, high |-> 5]]
SeverityOf(call) ==
    IF call.type \in DOMAIN Severity
    THEN Severity[call.type][IF call.intensity = "undefined" THEN "medium"
                             ELSE call.intensity]
    ELSE 1

\* C23: calculateFinalIntensity returns the entry of the severity table for
\* walking and running at every level, 1 for any other type (rest included),
\* treats an omitted level as medium, and always returns an integer in 1..5.
C23_SeverityTable ==
    \A k \in 1..Len(intensities) :
        /\ intensities[k] = SeverityOf(intensityArgs[k])
        /\ intensities[k] \in 1..5

\* running at high scored 5, then walking without a level scored 2
C23_Witness ==
    /\ Len(intensities) = 2
    /\ intensityArgs[1] = [type |-> "running", intensity |-> "high"]
    /\ intensityArgs[2] = [type |-> "walking", intensity |-> "undefined"]
    /\ intensities = <<5, 2>>

\* the ids of the nodes of the tree in document order
IdSeq(items) == LET nodes == Nodes(items) IN [k \in 1..Len(nodes) |-> nodes[k].id]
\* no two nodes of the tree have the same id
UniqueIds(items) ==
    LET nodes == Nodes(items)
    IN \A i, j \in 1..Len(nodes) : i # j => nodes[i].id # nodes[j].id

\* C24: under every editor operation (addExercise, addRest, addSet at top
\* level or into a Set, removeItem, moveItem, updateItem) the ids of the plan
\* stay pairwise distinct and no existing node changes its id: the only id an
\* operation brings in is the one generateId just returned, an operation that
\* keeps the number of nodes keeps the set of ids, and a saved plan has
\* pairwise distinct item ids that differ from the plan's own id.  (The trees
\* of EditorInit have at most one node, so it is enough to look at the tree
\* after each step that changes it.)
C24_IdsStayUnique ==
    [][LET before == editorWorkout.items
           after  == editorWorkout'.items
           idsBefore == IdSeq(before)
           idsAfter  == IdSeq(after)
           setBefore == {idsBefore[k] : k \in 1..Len(idsBefore)}
           setAfter  == {idsAfter[k] : k \in 1..Len(idsAfter)}
       IN
       /\ after # before =>
             /\ Cardinality(setAfter) = Len(idsAfter)
             /\ setAfter \subseteq setBefore \cup {generateId(idsGenerated)}
             /\ Len(idsAfter) = Len(idsBefore) => setAfter = setBefore
             /\ Len(idsAfter) > Len(idsBefore) =>
                   /\ idsGenerated' = idsGenerated + 1
                   /\ generateId(idsGenerated) \notin setBefore
                   /\ setAfter = setBefore \cup {generateId(idsGenerated)}
       /\ storedWorkouts' # storedWorkouts =>
             \A k \in 1..Len(storedWorkouts') :
                /\ UniqueIds(storedWorkouts'[k].items)
                /\ storedWorkouts'[k].id \notin NodeIds(storedWorkouts'[k].items)
      ]_vars

\* on the create page two items were added, the second was moved in front of
\* the first, and the first, an exercise, was updated
C24_Witness ==
    /\ editorPage = "create"
    /\ idsGenerated = 2
    /\ IdSeq(editorWorkout.items) = <<2, 1>>
    /\ editorWorkout.items[2].type = "walking"
    /\ editorWorkout.items[2].duration = 2

\* the name is empty after trimming: it holds nothing but spaces
Blank(name) == \A i \in 1..Len(name) : name[i] = " "

\* C25: whatever is done on the create or the edit page while the plan's name
\* is blank or its top-level item list is empty, the stored workout list stays
\* as it is and the page is not left: createWorkout / updateWorkout is not
\* called.  The alert about the name is raised only for a blank name, the
\* alert about the items only for an empty item list.
C25_InvalidSaveRejected ==
    [][/\ (Editing /\ (Blank(editorWorkout.name) \/ Len(editorWorkout.items) = 0)) =>
             /\ storedWorkouts' = storedWorkouts
             /\ editorPage' = editorPage
             /\ idsGenerated' = idsGenerated \/ editorWorkout' # editorWorkout
       /\ editorAlert' = "name" =>
             /\ Blank(editorWorkout.name)
             /\ UNCHANGED <<editorWorkout, storedWorkouts, editorPage, idsGenerated>>
       /\ editorAlert' = "items" =>
             /\ Len(editorWorkout.items) = 0
             /\ UNCHANGED <<editorWorkout, storedWorkouts, editorPage, idsGenerated>>
      ]_vars

\* on the create page a plan with an item and a name of one space was refused
C25_Witness ==
    /\ editorPage = "create"
    /\ editorAlert = "name"
    /\ editorWorkout.name = <<" ">>
    /\ Len(editorWorkout.items) > 0
    /\ storedWorkouts = <<>>

\* C29: every plan the save of the create or edit page stored is playable: it
\* has at least one timeline step and a positive total duration.
C29_AcceptedIsPlayable ==
    \A k \in 1..Len(storedWorkouts) :
        /\ countIntervals(storedWorkouts[k]) >= 1
        /\ calculateTotalTime(storedWorkouts[k]) > 0

RECURSIVE ListsOf(_, _)
\* every child list of the tree: the parent's id (NoParent for the top level)
\* with the ids of the list in order
ListsOf(items, parent) ==
    {<<parent, [k \in 1..Len(items) |-> items[k].id]>>}
    \cup UNION {ListsOf(items[k].items, items[k].id) :
                   k \in {j \in 1..Len(items) : items[j].type = "set"}}

\* how often node occurs among the nodes of the tree
CountNode(nodes, node) == Cardinality({k \in 1..Len(nodes) : nodes[k] = node})
SameNodes(a, b) ==
    LET nodesA == Nodes(a)
        nodesB == Nodes(b)
    IN /\ Len(nodesA) = Len(nodesB)
       /\ \A k \in 1..Len(nodesA) :
             CountNode(nodesA, nodesA[k]) = CountNode(nodesB, nodesA[k])

\* ids with the entries at positions i and j exchanged
Exchanged(ids, i, j) ==
    [k \in 1..Len(ids) |-> IF k = i THEN ids[j] ELSE IF k = j THEN ids[i] ELSE ids[k]]

\* after is items with the node id moved one place in direction
MoveOK(items, after, id, direction) ==
    LET lists == ListsOf(items, NoParent)
        home  == {l \in lists : \E k \in 1..Len(l[2]) : l[2][k] = id}
    IN
    /\ SameNodes(items, after)
    /\ IF home = {} THEN after = items
       ELSE LET l == CHOOSE h \in home : TRUE
                i == CHOOSE k \in 1..Len(l[2]) : l[2][k] = id
                j == IF direction = "up" THEN i - 1 ELSE i + 1
            IN IF j \in 1..Len(l[2])
               THEN ListsOf(after, NoParent) =
                       (lists \ {l}) \cup {<<l[1], Exchanged(l[2], i, j)>>}
               ELSE after = items

\* C30: for every tree the editor has built, every id (of the tree or of no
\* node) and both directions, moveItem exchanges the item with the sibling
\* before it (up) or after it (down) in the same list and changes nothing when
\* there is no such sibling or no such item; every other list keeps its parent,
\* content and order, and the nodes of the tree are the same multiset.
C30_MoveSwapsSiblings ==
    \A id \in NodeIds(editorWorkout.items) \cup {MissingId}, direction \in {"up", "down"} :
        MoveOK(editorWorkout.items,
               moveInItems(editorWorkout.items, id, direction), id, direction)

\* a Set was added, then a rest, and the rest was moved up in front of the Set
C30_Witness ==
    /\ Editing
    /\ Len(editorWorkout.items) = 2
    /\ editorWorkout.items[1].type = "rest"
    /\ editorWorkout.items[2].type = "set"
    /\ editorWorkout.items[1].id > editorWorkout.items[2].id
====
